---- MODULE Spec2Model ----
(***************************************************************************)
(* Model of cmd/load.go of wrench: the two export commands `load` and      *)
(* `load-discrete`, the static data config resolver, the artifact writers  *)
(* and the directory reconciler.                                           *)
(*                                                                         *)
(* File contents, table names and file names are sequences of characters.  *)
(* The target tree is a function from paths <<dir, name>> to contents      *)
(* (fs) plus the set of existing directories under the root (dirs).        *)
(***************************************************************************)
EXTENDS Integers, Sequences, FiniteSets, TLC

VARIABLES
    cfgPath,    \* kind of the path given to readStaticDataTablesFile
    jsonFile,   \* the structured config file the path resolves to
    txtFile,    \* the plain-text config file the path resolves to
    resolved,   \* last result of readStaticDataTablesFile (NoResult before)
    fs,         \* target tree: path -> content
    dirs,       \* existing directories under the root
    ddlSource,  \* what the Schema Provider returns from LoadDDLs
    db,         \* database rows per table, as the provider serialises them
    pc,         \* position of the running invocation
    mode,       \* "load" | "discrete" | "none"
    idx,        \* loop index of the range loops
    ddls,       \* local: result of LoadDDLs
    config,     \* local: result of readStaticDataTablesFile
    datas,      \* local: result of LoadStaticDatas
    result,     \* "none" | "ok" | "error": what the invocation returned
    log,        \* calls made by the current invocation, in order
    conn,       \* [acquired, released]: connection counters of the invocation
    deferred,   \* deferred calls registered by the current invocation
    runs,       \* number of invocations started
    fs0,        \* tree when the current invocation started
    prev        \* outcome of the previous invocation

vars == <<cfgPath, jsonFile, txtFile, resolved, fs, dirs, ddlSource, db, pc,
          mode, idx, ddls, config, datas, result, log, conn, deferred, runs,
          fs0, prev>>

cfgVars == <<cfgPath, jsonFile, txtFile>>
provVars == <<ddlSource, db>>

----------------------------------------------------------------------------
(* Bounds *)

MaxRuns == 2       \* invocations per behaviour
MaxDdls == 2       \* schema objects the provider returns
MaxTxtLen == 3     \* characters of a plain-text config file

----------------------------------------------------------------------------
(* Constants of the program *)

dirTable == "table"
dirStaticData == "static_data"
dirIndex == "index"

\* an ObjectType outside the three reconciled categories
dirOther == "view"

NL == "\n"
CR == "\r"
Char == {"a", "b", NL, CR}

----------------------------------------------------------------------------
(* Generic helpers *)

RECURSIVE SeqsUpTo(_, _)
SeqsUpTo(S, n) ==
    IF n = 0 THEN {<<>>}
    ELSE LET shorter == SeqsUpTo(S, n - 1)
         IN  shorter \cup {Append(s, x) : s \in {t \in shorter : Len(t) = n - 1}, x \in S}

Last(s) == s[Len(s)]

Range(s) == {s[i] : i \in DOMAIN s}

\* index of the first element of s equal to c, 0 when there is none
RECURSIVE IndexFrom(_, _, _)
IndexFrom(s, c, i) ==
    IF i > Len(s) THEN 0
    ELSE IF s[i] = c THEN i
    ELSE IndexFrom(s, c, i + 1)

----------------------------------------------------------------------------
(* Config Resolver *)

zeroConfig == [StaticDataTables |-> <<>>, CustomOrderBy |-> {}]

\* bufio's dropCR: a token loses one trailing carriage return
dropCR(tok) ==
    IF Len(tok) > 0 /\ tok[Len(tok)] = CR THEN SubSeq(tok, 1, Len(tok) - 1) ELSE tok

\* the tokens bufio.Scanner yields with the default split function ScanLines:
\* up to each newline, and at end of input whatever is left if anything is
RECURSIVE ScanLines(_)
ScanLines(data) ==
    IF Len(data) = 0 THEN <<>>
    ELSE LET i == IndexFrom(data, NL, 1)
         IN  IF i = 0 THEN <<dropCR(data)>>
             ELSE <<dropCR(SubSeq(data, 1, i - 1))>> \o ScanLines(SubSeq(data, i + 1, Len(data)))

\* mutant: a missing file is an error like any other
openFile_absentIsError(f) ==
    IF ~f.exists THEN [file |-> "nil", err |-> "ENOENT"]
    ELSE IF f.fault = "open" THEN [file |-> "nil", err |-> "EACCES"]
    ELSE [file |-> "open", err |-> "nil"]

\* openFile: "absent" is (nil, nil), any other failure is (nil, err)
openFile(f) ==
    IF ~f.exists THEN [file |-> "nil", err |-> "nil"]
    ELSE IF f.fault = "open" THEN [file |-> "nil", err |-> "EACCES"]
    ELSE [file |-> "open", err |-> "nil"]

\* what the reads of an opened handle deliver: all of it, or the part before a
\* read error; a nil handle delivers nothing (os.ErrInvalid on the first Read)
bytesRead(f, whole, part, none) ==
    IF openFile(f).file = "nil" THEN none
    ELSE IF f.fault = "read" THEN part
    ELSE whole

\* json.Unmarshal into a staticDataConfig: input that is not a well-formed
\* document is rejected before anything is stored; a value of the wrong type
\* is skipped, the other keys are still stored, and an error is returned
jsonUnmarshal(bytes, f) ==
    IF bytes # "whole" \/ ~f.syntaxOK
    THEN [sdc |-> zeroConfig, err |-> "SyntaxError"]
    ELSE [sdc |-> [StaticDataTables |-> IF f.tables.kind = "ok" THEN f.tables.v ELSE <<>>,
                   CustomOrderBy |-> IF f.order.kind = "ok" THEN f.order.v ELSE {}],
          err |-> IF f.tables.kind = "badtype" \/ f.order.kind = "badtype"
                  THEN "UnmarshalTypeError" ELSE "nil"]

\* readJsonFile: the errors of openFile and ReadAll are overwritten by the
\* result of json.Unmarshal
readJsonFile(f) ==
    jsonUnmarshal(bytesRead(f, "whole", "part", "none"), f)

\* readTxtFile: only the error of openFile is returned; the scanner's error is
\* never looked at, and every token is appended
readTxtFile(f) ==
    LET o == openFile(f) IN
    IF o.err # "nil" THEN [tables |-> <<>>, err |-> o.err]
    ELSE [tables |-> ScanLines(bytesRead(f, f.content, SubSeq(f.content, 1, f.cut), <<>>)),
          err |-> "nil"]

\* mutant: the error of the structured file is returned, the text file not tried
readStaticDataTablesFile_noFallback(kind, jf, tf) ==
    IF kind \in {"default", "json"} THEN
        LET j == readJsonFile(jf) IN [sdc |-> j.sdc, err |-> j.err, tried |-> <<"json">>]
    ELSE IF kind = "txt" THEN
        LET t == readTxtFile(tf)
        IN  [sdc |-> [zeroConfig EXCEPT !.StaticDataTables = t.tables],
             err |-> t.err, tried |-> <<"txt">>]
    ELSE [sdc |-> zeroConfig, err |-> "nil", tried |-> <<>>]

\* mutant: the text file is read after a structured file that parsed, and wins
readStaticDataTablesFile_txtWins(kind, jf, tf) ==
    IF kind = "default" THEN
        LET j == readJsonFile(jf)
            t == readTxtFile(tf)
        IN  [sdc |-> [j.sdc EXCEPT !.StaticDataTables = t.tables],
             err |-> t.err, tried |-> <<"json", "txt">>]
    ELSE IF kind = "json" THEN
        LET j == readJsonFile(jf) IN [sdc |-> j.sdc, err |-> j.err, tried |-> <<"json">>]
    ELSE IF kind = "txt" THEN
        LET t == readTxtFile(tf)
        IN  [sdc |-> [zeroConfig EXCEPT !.StaticDataTables = t.tables],
             err |-> t.err, tried |-> <<"txt">>]
    ELSE [sdc |-> zeroConfig, err |-> "nil", tried |-> <<>>]

\* mutant: a path ending with .json falls back to the text file as well
readStaticDataTablesFile_jsonFallsBack(kind, jf, tf) ==
    IF kind \in {"default", "json"} THEN
        LET j == readJsonFile(jf) IN
        IF j.err = "nil" THEN [sdc |-> j.sdc, err |-> "nil", tried |-> <<"json">>]
        ELSE LET t == readTxtFile(tf)
             IN  [sdc |-> [j.sdc EXCEPT !.StaticDataTables = t.tables],
                  err |-> t.err, tried |-> <<"json", "txt">>]
    ELSE IF kind = "txt" THEN
        LET t == readTxtFile(tf)
        IN  [sdc |-> [zeroConfig EXCEPT !.StaticDataTables = t.tables],
             err |-> t.err, tried |-> <<"txt">>]
    ELSE [sdc |-> zeroConfig, err |-> "nil", tried |-> <<>>]

\* readStaticDataTablesFile(filePath), with the branch taken given by the
\* kind of the path; tried is the sequence of readers that ran
readStaticDataTablesFile(kind, jf, tf) ==
    IF kind = "default" THEN
        LET j == readJsonFile(jf) IN
        IF j.err = "nil" THEN [sdc |-> j.sdc, err |-> "nil", tried |-> <<"json">>]
        ELSE LET t == readTxtFile(tf)
             IN  [sdc |-> [j.sdc EXCEPT !.StaticDataTables = t.tables],
                  err |-> t.err, tried |-> <<"json", "txt">>]
    ELSE IF kind = "json" THEN
        LET j == readJsonFile(jf) IN [sdc |-> j.sdc, err |-> j.err, tried |-> <<"json">>]
    ELSE IF kind = "txt" THEN
        LET t == readTxtFile(tf)
        IN  [sdc |-> [zeroConfig EXCEPT !.StaticDataTables = t.tables],
             err |-> t.err, tried |-> <<"txt">>]
    ELSE [sdc |-> zeroConfig, err |-> "nil", tried |-> <<>>]

----------------------------------------------------------------------------
(* Target tree: t = [fs |-> path -> content, dirs |-> set of directories] *)

filesUnder(f, d) == {p \in DOMAIN f : p[1] = d}

without(f, ps) == [p \in DOMAIN f \ ps |-> f[p]]

\* mutant: removing a directory that does not exist is an error
RemoveAll_missingIsError(t, d, fail, gone) ==
    IF d \notin t.dirs THEN [fs |-> t.fs, dirs |-> t.dirs, err |-> "ENOENT"]
    ELSE IF fail THEN [fs |-> without(t.fs, gone \cap filesUnder(t.fs, d)),
                       dirs |-> t.dirs, err |-> "EACCES"]
    ELSE [fs |-> without(t.fs, filesUnder(t.fs, d)), dirs |-> t.dirs \ {d}, err |-> "nil"]

\* os.RemoveAll(root/d): nil when d does not exist; otherwise d goes with all
\* beneath it, or the call fails having removed the files in gone
RemoveAll(t, d, fail, gone) ==
    IF d \notin t.dirs THEN [fs |-> t.fs, dirs |-> t.dirs, err |-> "nil"]
    ELSE IF fail THEN [fs |-> without(t.fs, gone \cap filesUnder(t.fs, d)),
                       dirs |-> t.dirs, err |-> "EACCES"]
    ELSE [fs |-> without(t.fs, filesUnder(t.fs, d)), dirs |-> t.dirs \ {d}, err |-> "nil"]

\* mutant: the static data subtree is not removed
clearDirs_noStaticData == <<dirTable, dirIndex>>

\* mutant: the index subtree is not removed
clearDirs_noIndex == <<dirTable, dirStaticData>>

\* mutant: the subtree of another object type is removed too
clearDirs_plusOther == <<dirTable, dirIndex, dirStaticData, dirOther>>

\* the subtrees clearSchemaDir removes, in the order it removes them
clearDirs == <<dirTable, dirIndex, dirStaticData>>

\* clearSchemaDir: the removals in order, returning at the first error;
\* failAt is the index of the removal that fails (0: none fails)
RECURSIVE clearFrom(_, _, _, _)
clearFrom(t, k, failAt, gone) ==
    IF k > Len(clearDirs) THEN [fs |-> t.fs, dirs |-> t.dirs, err |-> "nil"]
    ELSE LET r == RemoveAll(t, clearDirs[k], k = failAt, gone)
         IN  IF r.err # "nil" THEN r
             ELSE clearFrom([fs |-> r.fs, dirs |-> r.dirs], k + 1, failAt, gone)

clearSchemaDir(t, failAt, gone) == clearFrom(t, 1, failAt, gone)

\* mkdir: Stat, then MkdirAll when the directory is missing; the error of
\* MkdirAll is dropped, only a Stat error other than not-exist is returned
mkdir(t, parent, o) ==
    IF o.stat = "err" THEN [fs |-> t.fs, dirs |-> t.dirs, err |-> "EACCES"]
    ELSE IF parent \notin t.dirs
    THEN [fs |-> t.fs, dirs |-> IF o.mk THEN t.dirs \cup {parent} ELSE t.dirs, err |-> "nil"]
    ELSE [fs |-> t.fs, dirs |-> t.dirs, err |-> "nil"]

\* mutant: the write appends to the file
written_append(old, c) == old \o c

\* mutant: an existing file is kept
written_keep(old, c) == IF old # <<>> THEN old ELSE c

\* what a file holds after a successful write of content c over old
written(old, c) == c

\* ioutil.WriteFile: create or truncate, write, close.  It fails when the
\* parent is missing; it may fail at the open (nothing changes) or at the
\* write (the file is left truncated)
WriteFile(t, p, c, w) ==
    IF p[1] \notin t.dirs \/ w = "fail" THEN [fs |-> t.fs, dirs |-> t.dirs, err |-> "EIO"]
    ELSE LET old == IF p \in DOMAIN t.fs THEN t.fs[p] ELSE <<>>
             new == IF w = "trunc" THEN <<>> ELSE written(old, c)
         IN  [fs |-> [q \in DOMAIN t.fs \cup {p} |-> IF q = p THEN new ELSE t.fs[q]],
              dirs |-> t.dirs,
              err |-> IF w = "trunc" THEN "EIO" ELSE "nil"]

\* strings.Join(elems, sep)
RECURSIVE Join(_, _)
Join(elems, sep) ==
    IF Len(elems) = 0 THEN <<>>
    ELSE IF Len(elems) = 1 THEN elems[1]
    ELSE elems[1] \o <<sep>> \o Join(Tail(elems), sep)

\* StaticData.ToFileName: the table name with the .sql suffix
ToFileName(d) == d.TableName \o <<".sql">>

ddlPath(ddl) == <<ddl.ObjectType, ddl.Filename>>
dataPath(d) == <<dirStaticData, ToFileName(d)>>

\* mutant: only the error of mkdir is returned, the error of the write is dropped
writeDDL_writeErrDropped(t, ddl, o) ==
    LET m == mkdir(t, ddl.ObjectType, o) IN
    IF m.err # "nil" THEN m
    ELSE [WriteFile([fs |-> m.fs, dirs |-> m.dirs], ddlPath(ddl), ddl.Statement, o.w)
            EXCEPT !.err = "nil"]

writeDDL(t, ddl, o) ==
    LET m == mkdir(t, ddl.ObjectType, o) IN
    IF m.err # "nil" THEN m
    ELSE WriteFile([fs |-> m.fs, dirs |-> m.dirs], ddlPath(ddl), ddl.Statement, o.w)

writeData(t, d, o) ==
    LET m == mkdir(t, dirStaticData, o) IN
    IF m.err # "nil" THEN m
    ELSE WriteFile([fs |-> m.fs, dirs |-> m.dirs], dataPath(d), Join(d.Statements, NL), o.w)

\* outcomes of the system calls inside one writer call
WriteOutcomes == [stat : {"ok", "err"}, mk : BOOLEAN, w : {"ok", "fail", "trunc"}]

\* Schema Provider: one StaticData per requested table, in the order of the
\* list, holding the rows of that table as the database has them
rowsOf(dbv, t) == IF t \in DOMAIN dbv THEN dbv[t] ELSE <<>>

LoadStaticDatas(tables, dbv) ==
    [i \in 1..Len(tables) |-> [TableName |-> tables[i], Statements |-> rowsOf(dbv, tables[i])]]

----------------------------------------------------------------------------
(* Export Orchestrator *)

\* mutant: the clear runs after the schema objects are written
nextStep_clearLate(m, step) ==
    CASE step = "newSpannerClient" -> IF m = "load" THEN "LoadDDL" ELSE "LoadDDLs"
      [] step = "LoadDDL" -> "WriteFile"
      [] step = "WriteFile" -> "return"
      [] step = "LoadDDLs" -> "writeDDL"
      [] step = "writeDDL" -> "clearSchemaDir"
      [] step = "clearSchemaDir" -> "readStaticDataTablesFile"
      [] step = "readStaticDataTablesFile" -> "LoadStaticDatas"
      [] step = "LoadStaticDatas" -> "writeData"
      [] step = "writeData" -> "return"

\* mutant: the clear runs before the schema is fetched
nextStep_clearFirst(m, step) ==
    CASE step = "newSpannerClient" -> IF m = "load" THEN "LoadDDL" ELSE "clearSchemaDir"
      [] step = "LoadDDL" -> "WriteFile"
      [] step = "WriteFile" -> "return"
      [] step = "clearSchemaDir" -> "LoadDDLs"
      [] step = "LoadDDLs" -> "writeDDL"
      [] step = "writeDDL" -> "readStaticDataTablesFile"
      [] step = "readStaticDataTablesFile" -> "LoadStaticDatas"
      [] step = "LoadStaticDatas" -> "writeData"
      [] step = "writeData" -> "return"

\* the step that follows step when step returns no error
nextStep(m, step) ==
    CASE step = "newSpannerClient" -> IF m = "load" THEN "LoadDDL" ELSE "LoadDDLs"
      [] step = "LoadDDL" -> "WriteFile"
      [] step = "WriteFile" -> "return"
      [] step = "LoadDDLs" -> "clearSchemaDir"
      [] step = "clearSchemaDir" -> "writeDDL"
      [] step = "writeDDL" -> "readStaticDataTablesFile"
      [] step = "readStaticDataTablesFile" -> "LoadStaticDatas"
      [] step = "LoadStaticDatas" -> "writeData"
      [] step = "writeData" -> "return"

\* mutant: the error of clearSchemaDir is not checked
orchestrate_clearUnchecked(m, step, err) ==
    IF err # "nil" /\ step # "clearSchemaDir" THEN [pc |-> "exit", result |-> "error"]
    ELSE IF nextStep(m, step) = "return" THEN [pc |-> "exit", result |-> "ok"]
    ELSE [pc |-> nextStep(m, step), result |-> "none"]

\* what load and loadDiscrete do with the error a step returns: a non-nil
\* error is returned at once, nil goes on to the next step or to return nil
orchestrate(m, step, err) ==
    IF err # "nil" THEN [pc |-> "exit", result |-> "error"]
    ELSE IF nextStep(m, step) = "return" THEN [pc |-> "exit", result |-> "ok"]
    ELSE [pc |-> nextStep(m, step), result |-> "none"]

\* mutant: the release is not deferred
deferAfterConnect_none(err) == <<>>

\* defer client.Close(), registered once the client exists
deferAfterConnect(err) == IF err = "nil" THEN <<"Close">> ELSE <<>>

event(op, err) == [op |-> op, ok |-> (err = "nil")]

tree == [fs |-> fs, dirs |-> dirs]

NoResult == [sdc |-> zeroConfig, err |-> "none", tried |-> <<>>]

noPrev == [mode |-> "none", result |-> "none", fs |-> <<>>, dirs |-> {}]

\* schemaFilePath(c): the consolidated schema file, directly under the root
rootDir == "."
\* mutant: the consolidated file is written into the table directory
schemaFile_inTable == <<dirTable, <<"a", ".sql">>>>

schemaFile == <<rootDir, <<"schema.sql">>>>

\* the blob LoadDDL returns
ddlBlob == <<"c", NL, "d">>

\* a command is run: the first one on a tree of Init, a further one on the
\* tree a command that succeeded has left
Invoke(m) ==
    /\ pc \in {"idle", "done"}
    /\ pc = "done" => result = "ok"
    /\ runs < MaxRuns
    /\ pc' = "newSpannerClient"
    /\ mode' = m
    /\ runs' = runs + 1
    /\ prev' = [mode |-> mode, result |-> result, fs |-> fs, dirs |-> dirs]
    /\ fs0' = tree
    /\ idx' = 1
    /\ ddls' = <<>>
    /\ config' = zeroConfig
    /\ datas' = <<>>
    /\ resolved' = NoResult
    /\ result' = "none"
    /\ log' = <<>>
    /\ conn' = [acquired |-> 0, released |-> 0]
    /\ deferred' = <<>>
    /\ UNCHANGED <<cfgVars, provVars, fs, dirs>>

\* one step that leaves the tree alone: its error, and the locals it sets
Step(step, err) ==
    /\ pc = step
    /\ pc' = orchestrate(mode, step, err).pc
    /\ result' = orchestrate(mode, step, err).result
    /\ log' = Append(log, event(step, err))
    /\ UNCHANGED <<cfgVars, provVars, runs, fs0, prev, mode>>

newSpannerClient ==
    \E err \in {"nil", "Unavailable"} :
        /\ Step("newSpannerClient", err)
        /\ conn' = [conn EXCEPT !.acquired = @ + (IF err = "nil" THEN 1 ELSE 0)]
        /\ deferred' = deferAfterConnect(err)
        /\ UNCHANGED <<fs, dirs, idx, ddls, config, datas, resolved>>

\* load: client.LoadDDL
LoadDDL ==
    \E err \in {"nil", "Unavailable"} :
        /\ Step("LoadDDL", err)
        /\ ddls' = IF err = "nil" THEN <<ddlBlob>> ELSE ddls
        /\ UNCHANGED <<fs, dirs, idx, config, datas, resolved, conn, deferred>>

\* load: ioutil.WriteFile(schemaFilePath(c), ddl, 0664)
WriteSchemaFile ==
    \E w \in {"ok", "fail", "trunc"} :
        LET r == WriteFile(tree, schemaFile, ddls[1], w) IN
        /\ Step("WriteFile", r.err)
        /\ fs' = r.fs
        /\ dirs' = r.dirs
        /\ UNCHANGED <<idx, ddls, config, datas, resolved, conn, deferred>>

\* loadDiscrete: client.LoadDDLs
LoadDDLs ==
    \E err \in {"nil", "Unavailable"} :
        /\ Step("LoadDDLs", err)
        /\ ddls' = IF err = "nil" THEN ddlSource ELSE ddls
        /\ UNCHANGED <<fs, dirs, idx, config, datas, resolved, conn, deferred>>

clearSchemaDirStep ==
    \E failAt \in 0..Len(clearDirs), gone \in SUBSET DOMAIN fs :
        /\ failAt = 0 => gone = {}
        /\ failAt > 0 => /\ clearDirs[failAt] \in dirs
                         /\ gone \subseteq filesUnder(fs, clearDirs[failAt])
        /\ LET r == clearSchemaDir(tree, failAt, gone) IN
            /\ Step("clearSchemaDir", r.err)
            /\ fs' = r.fs
            /\ dirs' = r.dirs
        /\ idx' = 1
        /\ UNCHANGED <<ddls, config, datas, resolved, conn, deferred>>

\* for _, ddl := range ddls { writeDDL(ddl, schemaDirPath(c)) }
writeDDLStep ==
    /\ pc = "writeDDL"
    /\ \/ /\ idx <= Len(ddls)
          /\ \E o \in WriteOutcomes :
                LET r == writeDDL(tree, ddls[idx], o) IN
                /\ fs' = r.fs
                /\ dirs' = r.dirs
                /\ log' = Append(log, event("writeDDL", r.err))
                /\ IF r.err = "nil"
                   THEN /\ idx' = idx + 1
                        /\ UNCHANGED <<pc, result>>
                   ELSE /\ pc' = orchestrate(mode, "writeDDL", r.err).pc
                        /\ result' = orchestrate(mode, "writeDDL", r.err).result
                        /\ UNCHANGED idx
       \/ /\ idx > Len(ddls)
          /\ pc' = orchestrate(mode, "writeDDL", "nil").pc
          /\ result' = orchestrate(mode, "writeDDL", "nil").result
          /\ idx' = 1
          /\ UNCHANGED <<fs, dirs, log>>
    /\ UNCHANGED <<cfgVars, provVars, runs, fs0, prev, mode, ddls, config, datas,
                   resolved, conn, deferred>>

\* config, err := readStaticDataTablesFile(staticDataTablesFilePath(c))
resolveConfigStep ==
    LET r == readStaticDataTablesFile(cfgPath, jsonFile, txtFile) IN
    /\ Step("readStaticDataTablesFile", r.err)
    /\ resolved' = r
    /\ config' = r.sdc
    /\ UNCHANGED <<fs, dirs, idx, ddls, datas, conn, deferred>>

\* datas, err := client.LoadStaticDatas(ctx, config.StaticDataTables, config.CustomOrderBy)
LoadStaticDatasStep ==
    \E err \in {"nil", "Unavailable"} :
        /\ Step("LoadStaticDatas", err)
        /\ datas' = IF err = "nil" THEN LoadStaticDatas(config.StaticDataTables, db) ELSE datas
        /\ idx' = 1
        /\ UNCHANGED <<fs, dirs, ddls, config, resolved, conn, deferred>>

\* for _, d := range datas { writeData(d, schemaDirPath(c)) }
writeDataStep ==
    /\ pc = "writeData"
    /\ \/ /\ idx <= Len(datas)
          /\ \E o \in WriteOutcomes :
                LET r == writeData(tree, datas[idx], o) IN
                /\ fs' = r.fs
                /\ dirs' = r.dirs
                /\ log' = Append(log, event("writeData", r.err))
                /\ IF r.err = "nil"
                   THEN /\ idx' = idx + 1
                        /\ UNCHANGED <<pc, result>>
                   ELSE /\ pc' = orchestrate(mode, "writeData", r.err).pc
                        /\ result' = orchestrate(mode, "writeData", r.err).result
                        /\ UNCHANGED idx
       \/ /\ idx > Len(datas)
          /\ pc' = orchestrate(mode, "writeData", "nil").pc
          /\ result' = orchestrate(mode, "writeData", "nil").result
          /\ idx' = 1
          /\ UNCHANGED <<fs, dirs, log>>
    /\ UNCHANGED <<cfgVars, provVars, runs, fs0, prev, mode, ddls, config, datas,
                   resolved, conn, deferred>>

\* the function returns: its deferred calls run, then the command is over
Exit ==
    /\ pc = "exit"
    /\ pc' = "done"
    /\ deferred' = <<>>
    /\ conn' = [conn EXCEPT !.released = @ + Len(deferred)]
    /\ log' = log \o [i \in 1..Len(deferred) |-> event(deferred[i], "nil")]
    /\ UNCHANGED <<cfgVars, provVars, resolved, fs, dirs, mode, idx, ddls, config,
                   datas, result, runs, fs0, prev>>

----------------------------------------------------------------------------
(* Inputs *)

FileA == <<"a", ".sql">>
FileB == <<"b", ".sql">>
Old == <<"o">>

SchemaObjects ==
    {[ObjectType |-> dirTable, Filename |-> FileA, Statement |-> <<"c">>],
     [ObjectType |-> dirTable, Filename |-> FileA, Statement |-> <<"d">>],
     [ObjectType |-> dirOther, Filename |-> FileA, Statement |-> <<"c">>]}

\* files a prior run may have left
InitPaths == {<<dirTable, FileA>>, <<dirIndex, FileA>>, <<dirStaticData, FileA>>,
              <<dirOther, FileA>>}

InitTrees == {[p \in S |-> Old] : S \in SUBSET InitPaths}

Databases ==
    {[t \in {<<"a">>, <<"b">>} |-> IF t = <<"a">> THEN << <<"x">>, <<"y">> >> ELSE << <<"x">> >>]}

jval(kind, v) == [kind |-> kind, v |-> v]

jsonAbsent == [exists |-> FALSE, fault |-> "none", syntaxOK |-> FALSE,
               tables |-> jval("missing", <<>>), order |-> jval("missing", {})]

jsonDoc(fault, syntaxOK, tables, order) ==
    [exists |-> TRUE, fault |-> fault, syntaxOK |-> syntaxOK, tables |-> tables, order |-> order]

TableLists == {<< <<"a">> >>, << <<"b">>, <<"a">> >>}
OrderMaps == {{<< <<"a">>, "k DESC" >>}}

JTables == {jval("missing", <<>>), jval("badtype", <<>>)} \cup {jval("ok", v) : v \in TableLists}
JOrders == {jval("missing", {}), jval("badtype", {})} \cup {jval("ok", v) : v \in OrderMaps}

JsonFiles ==
    {jsonAbsent,
     jsonDoc("open", TRUE, jval("missing", <<>>), jval("missing", {})),
     jsonDoc("read", TRUE, jval("missing", <<>>), jval("missing", {})),
     jsonDoc("none", FALSE, jval("missing", <<>>), jval("missing", {}))}
    \cup {jsonDoc("none", TRUE, t, o) : t \in JTables, o \in JOrders}

txtAbsent == [exists |-> FALSE, content |-> <<>>, fault |-> "none", cut |-> 0]

txtDoc(content, fault, cut) == [exists |-> TRUE, content |-> content, fault |-> fault, cut |-> cut]

TxtFiles ==
    {txtAbsent}
    \cup {txtDoc(c, "none", 0) : c \in SeqsUpTo(Char, MaxTxtLen)}
    \cup {txtDoc(c, "open", 0) : c \in SeqsUpTo(Char, MaxTxtLen)}
    \cup UNION {{txtDoc(c, "read", k) : k \in 0..(Len(c) - 1)} : c \in SeqsUpTo(Char, MaxTxtLen)}

PathKinds == {"default", "json", "txt", "other"}

\* the config files the export runs are checked with
jsonGood == jsonDoc("none", TRUE, jval("ok", << <<"a">> >>), jval("ok", {<< <<"a">>, "k DESC" >>}))
jsonBadTables == jsonDoc("none", TRUE, jval("badtype", <<>>), jval("ok", {<< <<"a">>, "k DESC" >>}))
txtGapped == txtDoc(<<"a", NL, NL, "b">>, "none", 0)

cfgOf(kind, jf, tf) == [path |-> kind, json |-> jf, txt |-> tf]

ExportConfigs ==
    {cfgOf("default", jsonAbsent, txtAbsent),
     cfgOf("default", jsonGood, txtGapped),
     cfgOf("default", jsonBadTables, txtGapped),
     cfgOf("json", jsonAbsent, txtAbsent),
     cfgOf("json", jsonGood, txtAbsent),
     cfgOf("txt", jsonAbsent, txtGapped)}

----------------------------------------------------------------------------
(* Specifications *)

InitCommon ==
    /\ resolved = NoResult
    /\ mode = "none"
    /\ idx = 1
    /\ ddls = <<>>
    /\ config = zeroConfig
    /\ datas = <<>>
    /\ result = "none"
    /\ log = <<>>
    /\ conn = [acquired |-> 0, released |-> 0]
    /\ deferred = <<>>
    /\ runs = 0
    /\ prev = noPrev

\* the export commands, run up to MaxRuns times on one target directory
Init ==
    /\ InitCommon
    /\ pc = "idle"
    /\ \E c \in ExportConfigs :
        /\ cfgPath = c.path
        /\ jsonFile = c.json
        /\ txtFile = c.txt
    /\ fs \in InitTrees
    /\ dirs = {rootDir} \cup {p[1] : p \in DOMAIN fs}
    /\ fs0 = tree
    /\ ddlSource \in SeqsUpTo(SchemaObjects, MaxDdls)
    /\ db \in Databases

Next ==
    \/ \E m \in {"load", "discrete"} : Invoke(m)
    \/ newSpannerClient
    \/ LoadDDL
    \/ WriteSchemaFile
    \/ LoadDDLs
    \/ clearSchemaDirStep
    \/ writeDDLStep
    \/ resolveConfigStep
    \/ LoadStaticDatasStep
    \/ writeDataStep
    \/ Exit

Spec == Init /\ [][Next]_vars

\* the Config Resolver alone, on every config file within the bounds
resolveOnly ==
    /\ pc = "resolve"
    /\ resolved = NoResult
    /\ resolved' = readStaticDataTablesFile(cfgPath, jsonFile, txtFile)
    /\ config' = resolved'.sdc
    /\ UNCHANGED <<cfgVars, provVars, fs, dirs, pc, mode, idx, ddls, datas, result,
                   log, conn, deferred, runs, fs0, prev>>

InitCfg ==
    /\ InitCommon
    /\ pc = "resolve"
    /\ cfgPath \in PathKinds
    /\ jsonFile \in JsonFiles
    /\ txtFile \in TxtFiles
    /\ fs = <<>>
    /\ dirs = {rootDir}
    /\ fs0 = tree
    /\ ddlSource = <<>>
    /\ db \in Databases

NextCfg == resolveOnly

SpecCfg == InitCfg /\ [][NextCfg]_vars

----------------------------------------------------------------------------
(* Properties of the discrete export *)

CategoryDirs == {dirTable, dirIndex, dirStaticData}

discreteOk == mode = "discrete" /\ pc = "done" /\ result = "ok"

\* the paths of the artifacts the current run writes
writtenPaths ==
    {ddlPath(ddls[i]) : i \in DOMAIN ddls} \cup {dataPath(datas[i]) : i \in DOMAIN datas}

\* C1: after a successful discrete export, a file that was under table, index
\* or static_data before it and is not an artifact of this run does not exist
C1_ReconciliationComplete ==
    discreteOk =>
        \A p \in DOMAIN fs0.fs :
            (p[1] \in CategoryDirs /\ p \notin writtenPaths) => p \notin DOMAIN fs

C1_Witness ==
    /\ discreteOk
    /\ \E p \in DOMAIN fs0.fs :
        p[1] = dirStaticData /\ p \notin writtenPaths /\ p \notin DOMAIN fs
    /\ \E p \in DOMAIN fs0.fs :
        p[1] = dirTable /\ p \notin writtenPaths /\ p \notin DOMAIN fs

\* C2: a successful discrete export that directly follows a successful
\* discrete export with the same provider results and config files leaves the
\* tree as the first one left it: same directories, same files, same contents
C2_Idempotent ==
    (discreteOk /\ prev.mode = "discrete" /\ prev.result = "ok") =>
        (fs = prev.fs /\ dirs = prev.dirs)

C2_Witness ==
    /\ discreteOk /\ prev.mode = "discrete" /\ prev.result = "ok"
    /\ <<dirOther, FileA>> \in DOMAIN fs
    /\ <<dirStaticData, FileA>> \in DOMAIN fs
    /\ fs = prev.fs

uniquePairs(s) == \A i, j \in DOMAIN s : ddlPath(s[i]) = ddlPath(s[j]) => i = j

\* C3: after a successful discrete export every schema object (their
\* (ObjectType, Filename) pairs being unique) is the content of its file, and
\* every static data set, joined by newlines, is the content of its file
C3_ArtifactsWritten ==
    discreteOk =>
        /\ uniquePairs(ddls) =>
            \A i \in DOMAIN ddls :
                /\ ddlPath(ddls[i]) \in DOMAIN fs
                /\ fs[ddlPath(ddls[i])] = ddls[i].Statement
        /\ \A i \in DOMAIN datas :
                /\ dataPath(datas[i]) \in DOMAIN fs
                /\ fs[dataPath(datas[i])] = Join(datas[i].Statements, NL)

\* a file of the same name existed before with another content, in a directory
\* that is not cleared, and a static data set of two statements was written
C3_Witness ==
    /\ discreteOk
    /\ uniquePairs(ddls)
    /\ \E i \in DOMAIN ddls :
        /\ ddls[i].ObjectType = dirOther
        /\ ddlPath(ddls[i]) \in DOMAIN fs0.fs
        /\ fs0.fs[ddlPath(ddls[i])] # ddls[i].Statement
        /\ fs[ddlPath(ddls[i])] = ddls[i].Statement
    /\ <<dirStaticData, FileA>> \in DOMAIN fs
    /\ fs[<<dirStaticData, FileA>>] = <<"x", NL, "y">>

rank(op) ==
    CASE op = "newSpannerClient" -> 0
      [] op = "LoadDDLs" -> 1
      [] op = "clearSchemaDir" -> 2
      [] op = "writeDDL" -> 3
      [] op = "readStaticDataTablesFile" -> 4
      [] op = "LoadStaticDatas" -> 5
      [] op = "writeData" -> 6
      [] op = "Close" -> 7
      [] OTHER -> 8

count(op) == Cardinality({i \in DOMAIN log : log[i].op = op})

hasWrite == \E i \in DOMAIN log : log[i].op \in {"writeDDL", "writeData"}

C4_Order ==
    mode = "discrete" =>
        /\ \A i, j \in DOMAIN log :
            i < j => /\ rank(log[i].op) <= rank(log[j].op)
                     /\ rank(log[i].op) = rank(log[j].op) => log[i].op \in {"writeDDL", "writeData"}
        /\ count("clearSchemaDir") <= 1

\* within one discrete invocation: the tree changes only in the clear and in
\* the writers, and once a writer has run nothing is removed
C4_NoRemovalAfterWrite ==
    (mode = "discrete" /\ runs' = runs) =>
        /\ (fs' # fs \/ dirs' # dirs) =>
            /\ Len(log') = Len(log) + 1
            /\ Last(log').op \in {"clearSchemaDir", "writeDDL", "writeData"}
        /\ hasWrite => (DOMAIN fs \subseteq DOMAIN fs' /\ dirs \subseteq dirs')

\* C4: the steps of a discrete invocation occur in the order schema fetch,
\* clear, schema object writes, config resolution, static data fetch, static
\* data writes; the clear runs at most once, before any write, and nothing is
\* removed after a write of the same invocation
C4_StepOrder == []C4_Order /\ [][C4_NoRemovalAfterWrite]_vars

C4_Witness ==
    /\ discreteOk
    /\ count("clearSchemaDir") = 1
    /\ count("writeDDL") = 2
    /\ count("writeData") >= 1
    /\ DOMAIN fs0.fs # {}

pipeline ==
    <<"newSpannerClient", "LoadDDLs", "clearSchemaDir">>
    \o [i \in 1..Len(ddls) |-> "writeDDL"]
    \o <<"readStaticDataTablesFile", "LoadStaticDatas">>
    \o [i \in 1..Len(datas) |-> "writeData"]

steps == SelectSeq(log, LAMBDA e : e.op # "Close")

C5_FirstFailureEnds ==
    mode = "discrete" =>
        /\ \A i \in DOMAIN steps : ~steps[i].ok => i = Len(steps)
        /\ (result = "error") <=> (\E i \in DOMAIN steps : ~steps[i].ok)
        /\ result = "ok" => /\ Len(steps) = Len(pipeline)
                            /\ \A i \in DOMAIN steps : steps[i].ok /\ steps[i].op = pipeline[i]
        /\ \A i \in DOMAIN steps : i <= Len(pipeline) /\ steps[i].op = pipeline[i]
        /\ (result # "none") <=> (pc \in {"exit", "done"})

\* once the invocation has returned nothing but the deferred release happens;
\* the failing step itself, unless it is the clear, removes nothing
C5_NoLaterStep ==
    (mode = "discrete" /\ runs' = runs) =>
        /\ result # "none" =>
            /\ fs' = fs /\ dirs' = dirs /\ result' = result
            /\ steps' = steps
        /\ (result = "none" /\ result' = "error" /\ Last(log').op # "clearSchemaDir") =>
            (DOMAIN fs \subseteq DOMAIN fs' /\ dirs \subseteq dirs')

\* C5: in discrete mode the first step that returns an error ends the
\* invocation with an error: no later step runs, no step is retried, files
\* already written stay; success is returned only when every step succeeded
C5_EarlyAbort == []C5_FirstFailureEnds /\ [][C5_NoLaterStep]_vars

C5_Witness ==
    /\ mode = "discrete" /\ pc = "done" /\ result = "error"
    /\ Len(steps) = 5
    /\ steps[4].op = "writeDDL" /\ steps[4].ok
    /\ steps[5].op = "writeDDL" /\ ~steps[5].ok
    /\ ddlPath(ddls[1]) \in DOMAIN fs
    /\ fs[ddlPath(ddls[1])] = ddls[1].Statement

\* C6: in both modes the connection is acquired at most once per invocation
\* and, when the invocation is over, released exactly once if it was acquired,
\* as the last call of the invocation
C6_ConnectionReleased ==
    /\ conn.acquired <= 1
    /\ conn.released <= conn.acquired
    /\ count("newSpannerClient") <= 1
    /\ (conn.acquired = 1) <=> (\E i \in DOMAIN log : log[i].op = "newSpannerClient" /\ log[i].ok)
    /\ conn.released = count("Close")
    /\ pc = "done" =>
        /\ conn.released = conn.acquired
        /\ conn.acquired = 1 => Last(log).op = "Close"
    /\ (pc \notin {"done", "idle", "resolve"} /\ conn.acquired = 1) => conn.released = 0

C6_Witness ==
    /\ pc = "done" /\ result = "error" /\ mode = "discrete"
    /\ conn.acquired = 1 /\ conn.released = 1
    /\ Len(log) = 3
    /\ log[2].op = "LoadDDLs" /\ ~log[2].ok

----------------------------------------------------------------------------
(* Properties of the Config Resolver *)

isResolved == resolved.err # "none"

\* the lines of a text: the parts between newlines, a carriage return before
\* the newline belonging to the line end; text after the last newline is a line
RECURSIVE splitLines(_, _)
splitLines(data, cur) ==
    IF Len(data) = 0 THEN (IF Len(cur) = 0 THEN <<>> ELSE <<cur>>)
    ELSE IF Head(data) = NL THEN <<cur>> \o splitLines(Tail(data), <<>>)
    ELSE splitLines(Tail(data), Append(cur, Head(data)))

stripCR(line) ==
    IF Len(line) > 0 /\ line[Len(line)] = CR THEN SubSeq(line, 1, Len(line) - 1) ELSE line

textLines(content) ==
    LET ls == splitLines(content, <<>>) IN [i \in 1..Len(ls) |-> stripCR(ls[i])]

nonEmptyLines(content) == SelectSeq(textLines(content), LAMBDA l : Len(l) > 0)

\* C7: a path that ends with .json or .txt and names no file gives an empty
\* config and no error
C7_AbsentIsNoError ==
    (/\ isResolved
     /\ \/ cfgPath = "json" /\ ~jsonFile.exists
        \/ cfgPath = "txt" /\ ~txtFile.exists)
    => (resolved.err = "nil" /\ resolved.sdc = zeroConfig)

\* C8: with the default filename and both sibling files absent the resolver
\* returns the empty config and no error, and the discrete export goes on to
\* the static data fetch with an empty table list
C8_BothAbsentEmptyConfig ==
    (/\ mode = "discrete"
     /\ cfgPath = "default" /\ ~jsonFile.exists /\ ~txtFile.exists
     /\ count("readStaticDataTablesFile") = 1)
    => /\ resolved.err = "nil"
       /\ resolved.sdc = zeroConfig
       /\ config = zeroConfig
       /\ \A i \in DOMAIN log : log[i].op = "readStaticDataTablesFile" => log[i].ok
       /\ pc \in {"LoadStaticDatas", "writeData", "exit", "done"}
       /\ pc # "LoadStaticDatas" => count("LoadStaticDatas") = 1
       /\ count("writeData") = 0
       /\ datas = <<>>
       /\ result = "error" => (\E i \in DOMAIN log : log[i].op = "LoadStaticDatas" /\ ~log[i].ok)

C8_Witness ==
    /\ discreteOk
    /\ cfgPath = "default" /\ ~jsonFile.exists /\ ~txtFile.exists
    /\ resolved.err = "nil" /\ resolved.tried = <<"json", "txt">>
    /\ \E i \in DOMAIN log : log[i].op = "LoadStaticDatas" /\ log[i].ok
    /\ datas = <<>>

malformed(jf) ==
    /\ jf.exists /\ jf.fault = "none"
    /\ ~jf.syntaxOK \/ jf.tables.kind = "badtype" \/ jf.order.kind = "badtype"

validTxt(tf) == tf.exists /\ tf.fault = "none"

\* C9: with the default filename, a structured file that exists and is
\* malformed and a text file that exists and is readable, the resolver returns
\* the lines of the text file as the table list, and no error
C9_MalformedFallsThrough ==
    (isResolved /\ cfgPath = "default" /\ malformed(jsonFile) /\ validTxt(txtFile))
    => /\ resolved.err = "nil"
       /\ resolved.tried = <<"json", "txt">>
       /\ resolved.sdc.StaticDataTables = textLines(txtFile.content)
       /\ nonEmptyLines(txtFile.content) = textLines(txtFile.content)
            => resolved.sdc.StaticDataTables = nonEmptyLines(txtFile.content)

C9_Witness ==
    /\ isResolved /\ cfgPath = "default" /\ validTxt(txtFile)
    /\ jsonFile.exists /\ jsonFile.fault = "none" /\ jsonFile.syntaxOK
    /\ jsonFile.tables.kind = "badtype"
    /\ txtFile.content = <<"a", NL, "b">>
    /\ resolved.err = "nil"
    /\ resolved.sdc.StaticDataTables = << <<"a">>, <<"b">> >>

\* C10: the table list taken from a plain-text file that is read without a
\* fault is the sequence of its non-empty lines, in file order
C10_TablesAreNonEmptyLines ==
    (isResolved /\ validTxt(txtFile) /\ resolved.tried # <<>> /\ Last(resolved.tried) = "txt")
    => resolved.sdc.StaticDataTables = nonEmptyLines(txtFile.content)

parses(jf) ==
    /\ jf.exists /\ jf.fault = "none" /\ jf.syntaxOK
    /\ jf.tables.kind # "badtype" /\ jf.order.kind # "badtype"

\* the list and the mapping a structured file holds (none when the key is missing)
listOf(jf) == IF jf.tables.kind = "ok" THEN jf.tables.v ELSE <<>>
mappingOf(jf) == IF jf.order.kind = "ok" THEN jf.order.v ELSE {}

\* C11: with the default filename and a structured file that exists and
\* parses, the config is the file's list and mapping, no error is returned,
\* and only the structured reader has run, whatever the text file is
C11_FirstSuccessWins ==
    (isResolved /\ cfgPath = "default" /\ parses(jsonFile))
    => /\ resolved.err = "nil"
       /\ resolved.tried = <<"json">>
       /\ resolved.sdc.StaticDataTables = listOf(jsonFile)
       /\ resolved.sdc.CustomOrderBy = mappingOf(jsonFile)

\* the text file exists with other tables, or cannot even be opened
C11_Witness ==
    /\ isResolved /\ cfgPath = "default" /\ parses(jsonFile)
    /\ jsonFile.tables.kind = "ok" /\ jsonFile.order.kind = "ok"
    /\ txtFile.exists /\ txtFile.fault = "open"
    /\ txtFile.content = <<"b", NL, "b">>
    /\ resolved.sdc.StaticDataTables = << <<"b">>, <<"a">> >>
    /\ resolved.sdc.CustomOrderBy # {}

\* C12: a path ending with .json runs only the structured reader, and a
\* malformed or unreadable file there is an error; a path ending with .txt
\* runs only the text reader
C12_NoFallbackForExplicit ==
    isResolved =>
        /\ cfgPath = "json" =>
            /\ resolved.tried = <<"json">>
            /\ ~parses(jsonFile) => (resolved.err # "nil")
            /\ resolved.sdc.StaticDataTables =
                    IF jsonFile.exists /\ jsonFile.fault = "none" /\ jsonFile.syntaxOK
                    THEN listOf(jsonFile) ELSE <<>>
        /\ cfgPath = "txt" =>
            /\ resolved.tried = <<"txt">>
            /\ resolved.sdc.CustomOrderBy = {}
            /\ validTxt(txtFile) => resolved.sdc.StaticDataTables = textLines(txtFile.content)

C12_Witness ==
    /\ isResolved /\ cfgPath = "json" /\ malformed(jsonFile) /\ validTxt(txtFile)
    /\ txtFile.content = <<"a", NL, "b">>
    /\ resolved.err # "nil"
    /\ resolved.sdc.StaticDataTables = <<>>

justCleared == mode = "discrete" /\ Len(log) > 0 /\ Last(log).op = "clearSchemaDir"

outsideCategories(f) == [p \in {q \in DOMAIN f : q[1] \notin CategoryDirs} |-> f[p]]

\* C13: whichever of table, index and static_data exist, clearSchemaDir
\* returns no error unless the removal of an existing one fails; when it
\* returns no error the three are gone with all beneath them and the rest of
\* the tree is as before, and a second call returns no error and changes nothing
C13_ClearIdempotent ==
    justCleared =>
        /\ clearSchemaDir(fs0, 0, {}).err = "nil"
        /\ ~Last(log).ok => (dirs \cap CategoryDirs # {} /\ fs0.dirs \cap CategoryDirs # {})
        /\ Last(log).ok =>
            /\ dirs = fs0.dirs \ CategoryDirs
            /\ fs = outsideCategories(fs0.fs)
            /\ clearSchemaDir(tree, 0, {}) = [fs |-> fs, dirs |-> dirs, err |-> "nil"]

\* table and static_data exist with files, index does not
C13_Witness ==
    /\ justCleared /\ Last(log).ok
    /\ fs0.dirs \cap CategoryDirs = {dirTable, dirStaticData}
    /\ <<dirTable, FileA>> \in DOMAIN fs0.fs
    /\ <<dirOther, FileA>> \in DOMAIN fs
    /\ dirs \cap CategoryDirs = {}

consolidatedPath == <<".", <<"schema.sql">>>>

sameAt(p) == (p \in DOMAIN fs <=> p \in DOMAIN fs0.fs) /\ (p \in DOMAIN fs => fs[p] = fs0.fs[p])

\* C14: the consolidated export leaves every directory and every file other
\* than the consolidated schema file as it found them, runs no clear and no
\* per-object writer, changes the schema file only in its one write, which on
\* success leaves the fetched blob there, and changes nothing when the fetch fails
C14_LoadFrame ==
    mode = "load" =>
        /\ dirs = fs0.dirs
        /\ \A p \in (DOMAIN fs \cup DOMAIN fs0.fs) \ {consolidatedPath} : sameAt(p)
        /\ ~sameAt(consolidatedPath) => count("WriteFile") = 1
        /\ \A i \in DOMAIN log :
            /\ log[i].op \in {"newSpannerClient", "LoadDDL", "WriteFile", "Close"}
            /\ (log[i].op = "WriteFile" /\ log[i].ok) =>
                (consolidatedPath \in DOMAIN fs /\ fs[consolidatedPath] = ddls[1])
            /\ (log[i].op = "LoadDDL" /\ ~log[i].ok) => (fs = fs0.fs /\ count("WriteFile") = 0)
        /\ result = "ok" => count("WriteFile") = 1

C14_Witness ==
    /\ mode = "load" /\ pc = "done" /\ result = "ok"
    /\ InitPaths \subseteq DOMAIN fs
    /\ \A p \in InitPaths : fs[p] = Old
    /\ fs[consolidatedPath] = <<"c", NL, "d">>
    /\ consolidatedPath \notin DOMAIN fs0.fs

\* the parent directory of the artifact the writer loop is at
parentAtLoop ==
    IF pc = "writeDDL" /\ idx <= Len(ddls) THEN ddls[idx].ObjectType ELSE dirStaticData

C15_Step ==
    (/\ mode = "discrete" /\ runs' = runs
     /\ pc \in {"writeDDL", "writeData"}
     /\ Len(log') = Len(log) + 1
     /\ parentAtLoop \notin dirs
     /\ parentAtLoop \notin dirs')
    => /\ Last(log').op = pc
       /\ ~Last(log').ok
       /\ result' = "error"
       /\ pc' = "exit"
       /\ fs' = fs

\* C15: a call of writeDDL or writeData that finds its parent directory
\* missing and leaves it missing returns an error, and the discrete export
\* returns an error without writing anything more
C15_MkdirFailurePropagates == [][C15_Step]_vars

\* the export has failed in writeDDL and the directory of that object is missing
C15_Witness ==
    /\ mode = "discrete" /\ pc = "done" /\ result = "error"
    /\ Len(steps) > 0 /\ Last(steps).op = "writeDDL" /\ ~Last(steps).ok
    /\ idx <= Len(ddls)
    /\ ddls[idx].ObjectType \notin dirs
    /\ ddlPath(ddls[idx]) \notin DOMAIN fs

tablesFromTxt == isResolved /\ resolved.tried # <<>> /\ Last(resolved.tried) = "txt"

\* C16: a config returned without error whose table list comes from a
\* plain-text file that exists and is read has an empty CustomOrderBy
C16_TxtConfigHasNoOrdering ==
    (tablesFromTxt /\ validTxt(txtFile) /\ resolved.err = "nil") => resolved.sdc.CustomOrderBy = {}

\* the final candidate of the chain exists and opening or reading it fails
finalCandidateFaulty ==
    \/ cfgPath = "json" /\ jsonFile.exists /\ jsonFile.fault # "none"
    \/ tablesFromTxt /\ txtFile.exists /\ txtFile.fault # "none"

\* C17: when opening or reading the final candidate fails for another reason
\* than not-found, readStaticDataTablesFile returns an error
C17_FinalFaultIsError ==
    (isResolved /\ finalCandidateFaulty) => resolved.err # "nil"

lastStepFailed(ops) == Len(steps) > 0 /\ Last(steps).op \in ops /\ ~Last(steps).ok

\* C18: a discrete export that has not reached the clear, and so one that
\* failed at connecting or at fetching the schema objects, has left the target
\* tree exactly as it was before the invocation
C18_EarlyFailureLeavesTree ==
    mode = "discrete" =>
        /\ count("clearSchemaDir") = 0 => (fs = fs0.fs /\ dirs = fs0.dirs)
        /\ lastStepFailed({"newSpannerClient", "LoadDDLs"}) =>
            /\ result = "error"
            /\ fs = fs0.fs /\ dirs = fs0.dirs
            /\ count("clearSchemaDir") = 0 /\ ~hasWrite

C18_Witness ==
    /\ mode = "discrete" /\ pc = "done" /\ result = "error"
    /\ lastStepFailed({"LoadDDLs"})
    /\ InitPaths \subseteq DOMAIN fs
    /\ \A p \in InitPaths : fs[p] = Old

\* the artifacts the writers of this invocation have been called for so far
attemptedDdls == {i \in DOMAIN ddls : i <= count("writeDDL")}
attemptedDatas == {i \in DOMAIN datas : i <= count("writeData")}
attemptedPaths ==
    {ddlPath(ddls[i]) : i \in attemptedDdls} \cup {dataPath(datas[i]) : i \in attemptedDatas}

clearedOk == \E i \in DOMAIN log : log[i].op = "clearSchemaDir" /\ log[i].ok

\* C19: once clearSchemaDir has returned without error, in every later state
\* of the invocation, failure states included, each file under table, index
\* and static_data is one a writer of this invocation was called for and holds
\* what that writer wrote (nothing, if its write failed part-way); after a
\* failed config resolution or static data fetch static_data holds no file
C19_OnlyCurrentFilesAfterClear ==
    (mode = "discrete" /\ clearedOk) =>
        /\ \A p \in DOMAIN fs :
            p[1] \in CategoryDirs =>
                /\ p \in attemptedPaths
                /\ \/ fs[p] = <<>>
                   \/ \E i \in attemptedDdls : ddlPath(ddls[i]) = p /\ fs[p] = ddls[i].Statement
                   \/ \E i \in attemptedDatas :
                        dataPath(datas[i]) = p /\ fs[p] = Join(datas[i].Statements, NL)
        /\ lastStepFailed({"readStaticDataTablesFile", "LoadStaticDatas"}) =>
            filesUnder(fs, dirStaticData) = {}

\* config resolution failed after the schema objects were written, and the
\* files a prior run left under index and static_data are gone
C19_Witness ==
    /\ mode = "discrete" /\ pc = "done" /\ result = "error"
    /\ lastStepFailed({"readStaticDataTablesFile"})
    /\ <<dirStaticData, FileA>> \in DOMAIN fs0.fs
    /\ <<dirIndex, FileA>> \in DOMAIN fs0.fs
    /\ filesUnder(fs, dirStaticData) = {}
    /\ filesUnder(fs, dirIndex) = {}
    /\ <<dirTable, FileA>> \in DOMAIN fs

\* C20: a discrete export changes nothing outside table, index and
\* static_data except the files its writers are called for and their parent
\* directories, and creates no file but those; so a file of a prior run under
\* another object type, whose object is not in the current result, is kept
C20_DiscreteFrame ==
    mode = "discrete" =>
        /\ \A p \in DOMAIN fs \cup DOMAIN fs0.fs :
            (p[1] \notin CategoryDirs /\ p \notin attemptedPaths) => sameAt(p)
        /\ DOMAIN fs \ DOMAIN fs0.fs \subseteq attemptedPaths
        /\ fs0.dirs \ CategoryDirs \subseteq dirs
        /\ dirs \ fs0.dirs \subseteq {ddls[i].ObjectType : i \in attemptedDdls} \cup {dirStaticData}
        /\ discreteOk =>
            \A p \in DOMAIN fs0.fs :
                (p[1] \notin CategoryDirs /\ p \notin writtenPaths) =>
                    (p \in DOMAIN fs /\ fs[p] = fs0.fs[p])

C20_Witness ==
    /\ discreteOk
    /\ <<dirOther, FileA>> \in DOMAIN fs0.fs
    /\ <<dirOther, FileA>> \notin writtenPaths
    /\ <<dirOther, FileA>> \in DOMAIN fs
    /\ fs[<<dirOther, FileA>>] = Old
    /\ <<dirTable, FileA>> \in DOMAIN fs0.fs
    /\ Len(ddls) > 0
    /\ filesUnder(fs, dirTable) = {<<dirTable, FileA>>}
    /\ fs[<<dirTable, FileA>>] # Old

====
